---------------------------- MODULE Spec2Model ----------------------------
(***************************************************************************)
(* A model of the Public Sentiment Dashboard: the ingestion client of      *)
(* data_scraper.py (three source adapters, the process-wide Twitter rate   *)
(* limit timestamp, scrape_policy_data) and the dashboard script of app.py *)
(* (the module-level scrape, labeling, filtering, the empty check and the  *)
(* key insights), and the SentimentAnalyzer of app.py applied to one text.  *)
(*                                                                         *)
(* Text (topic names, queries, post texts) is a sequence of one-character  *)
(* strings, so that lower() and concatenation are computed, not assumed.   *)
(* Time is in seconds since the epoch, as time.time() gives it.            *)
(***************************************************************************)
EXTENDS Integers, Sequences, FiniteSets, TLC

VARIABLES
    now,                            \* the wall clock, time.time()
    bearer_token,                   \* os.getenv('TWITTER_BEARER_TOKEN') is set
    youtube_api_key,                \* os.getenv('YOUTUBE_API_KEY') is set
    utcoffset,                      \* the local time zone's offset from UTC
    TWITTER_LAST_RATE_LIMIT_HIT,    \* the module-level global
    twitter_api,                    \* self.twitter_api of each scraper instance
    hit429,                         \* history: time of each source's last 429
    last,                           \* history: the most recent adapter call
    pc,                             \* position of scrape_policy_data
    run,                            \* the locals of scrape_policy_data
    app,                            \* the dashboard script (app.py)
    analyzer                        \* a SentimentAnalyzer applied to one text

vars == <<now, bearer_token, youtube_api_key, utcoffset,
          TWITTER_LAST_RATE_LIMIT_HIT, twitter_api, hit429, last,
          pc, run, app, analyzer>>

-----------------------------------------------------------------------------
(* Bounds of the model *)

NumScrapers == 2        \* SocialMediaScraper instances alive in the process
MaxElapsed == 900       \* the clock stops advancing this long after the start
MaxPosts == 1           \* documents in one answer to a query of a run

Scrapers == 1 .. NumScrapers

-----------------------------------------------------------------------------
(* Program constants *)

None == -1                  \* Python's None, for a value that is else a time
CoolDown == 900             \* "15 minutes"
PolitenessDelay == 5        \* time.sleep(5)
SecondsPerDay == 86400      \* timedelta(days=days_back)
DefaultDaysBack == 7        \* days_back=7
T0 == 100 * SecondsPerDay   \* the clock when the process starts
UtcOffsets == {0, 19800}    \* local zones: UTC, and +05:30
Waits == {CoolDown \div 2}  \* time that passes between two calls

Sources == {"Twitter", "Reddit", "YouTube"}

-----------------------------------------------------------------------------
(* Text *)

Upper == <<"A","B","C","D","E","F","G","H","I","J","K","L","M",
           "N","O","P","Q","R","S","T","U","V","W","X","Y","Z">>
LowerOf == <<"a","b","c","d","e","f","g","h","i","j","k","l","m",
             "n","o","p","q","r","s","t","u","v","w","x","y","z">>

\* str.lower() on one character
LowerChar(c) ==
    IF \E i \in 1 .. Len(Upper) : Upper[i] = c
    THEN LowerOf[CHOOSE i \in 1 .. Len(Upper) : Upper[i] = c]
    ELSE c

\* str.lower()
Lower(s) == [i \in 1 .. Len(s) |-> LowerChar(s[i])]


TextA == <<"D","i","g","i","t","a","l"," ","I","n","d","i","a">>
TextB == <<"c","l","e","a","n"," ","i","n","d","i","a">>
QueryGst == <<"g","s","t">>

\* All sequences over S of length at most n
SeqsUpTo(S, n) == UNION {[1 .. k -> S] : k \in 0 .. n}

-----------------------------------------------------------------------------
(* SentimentAnalyzer (app.py) *)

IsUpper(c) == \E i \in 1 .. Len(Upper) : Upper[i] = c
IsLower(c) == \E i \in 1 .. Len(LowerOf) : LowerOf[i] = c
IsLetter(c) == IsUpper(c) \/ IsLower(c)
IsDigit(c) == c \in {"0","1","2","3","4","5","6","7","8","9"}
\* \s and \S
IsSpace(c) == c \in {" ", "\t", "\n"}
\* \w
IsWordChar(c) == IsLetter(c) \/ IsDigit(c) \/ c = "_"

\* str.upper() on one character
UpperChar(c) ==
    IF IsLower(c) THEN Upper[CHOOSE i \in 1 .. Len(LowerOf) : LowerOf[i] = c] ELSE c

\* the suffix of s from position i on
From(s, i) == SubSeq(s, i, Len(s))

\* s has k at position i
HasAt(s, i, k) == i + Len(k) - 1 <= Len(s) /\ SubSeq(s, i, i + Len(k) - 1) = k

\* "k in s" of Python: k is a substring of s
Contains(s, k) == \E i \in 1 .. Len(s) - Len(k) + 1 : HasAt(s, i, k)

\* the length of the longest run of \S, of \w and of \s from position i on
RECURSIVE NonSpaceRun(_, _)
NonSpaceRun(s, i) ==
    IF i > Len(s) \/ IsSpace(s[i]) THEN 0 ELSE 1 + NonSpaceRun(s, i + 1)

RECURSIVE WordCharRun(_, _)
WordCharRun(s, i) ==
    IF i > Len(s) \/ ~IsWordChar(s[i]) THEN 0 ELSE 1 + WordCharRun(s, i + 1)

RECURSIVE SpaceRun(_, _)
SpaceRun(s, i) ==
    IF i > Len(s) \/ ~IsSpace(s[i]) THEN 0 ELSE 1 + SpaceRun(s, i + 1)

\* the length of the match of prefix\S+ at position i, 0 when there is none
PrefixNonSpaceAt(s, i, prefix) ==
    IF HasAt(s, i, prefix) /\ NonSpaceRun(s, i + Len(prefix)) > 0
    THEN Len(prefix) + NonSpaceRun(s, i + Len(prefix))
    ELSE 0

\* the length of the match of prefix\w+ at position i, 0 when there is none
PrefixWordAt(s, i, prefix) ==
    IF HasAt(s, i, prefix) /\ WordCharRun(s, i + Len(prefix)) > 0
    THEN Len(prefix) + WordCharRun(s, i + Len(prefix))
    ELSE 0

\* the length of the match of http\S+|www\S+|https\S+ at position i
UrlAt(s, i) ==
    IF PrefixNonSpaceAt(s, i, <<"h","t","t","p">>) > 0
    THEN PrefixNonSpaceAt(s, i, <<"h","t","t","p">>)
    ELSE IF PrefixNonSpaceAt(s, i, <<"w","w","w">>) > 0
    THEN PrefixNonSpaceAt(s, i, <<"w","w","w">>)
    ELSE PrefixNonSpaceAt(s, i, <<"h","t","t","p","s">>)

\* the length of the match of @\w+|#\w+ at position i
TagAt(s, i) ==
    IF PrefixWordAt(s, i, <<"@">>) > 0
    THEN PrefixWordAt(s, i, <<"@">>)
    ELSE PrefixWordAt(s, i, <<"#">>)

\* re.sub(r'http\S+|www\S+|https\S+', '', s), from position i on
RECURSIVE RemoveUrls(_, _)
RemoveUrls(s, i) ==
    IF i > Len(s) THEN << >>
    ELSE IF UrlAt(s, i) > 0 THEN RemoveUrls(s, i + UrlAt(s, i))
    ELSE <<s[i]>> \o RemoveUrls(s, i + 1)

\* re.sub(r'@\w+|#\w+', '', s), from position i on
RECURSIVE RemoveTags(_, _)
RemoveTags(s, i) ==
    IF i > Len(s) THEN << >>
    ELSE IF TagAt(s, i) > 0 THEN RemoveTags(s, i + TagAt(s, i))
    ELSE <<s[i]>> \o RemoveTags(s, i + 1)

\* re.sub(r'[^a-zA-Z\s]', '', s)
LettersAndSpaces(s) == SelectSeq(s, LAMBDA c : IsLetter(c) \/ IsSpace(c))

\* re.sub(r'\s+', ' ', s)
RECURSIVE CollapseSpaces(_, _)
CollapseSpaces(s, i) ==
    IF i > Len(s) THEN << >>
    ELSE IF IsSpace(s[i])
         THEN <<" ">> \o CollapseSpaces(s, i + SpaceRun(s, i))
    ELSE <<s[i]>> \o CollapseSpaces(s, i + 1)

\* str.strip()
RECURSIVE Strip(_)
Strip(s) ==
    IF s = << >> THEN s
    ELSE IF IsSpace(s[1]) THEN Strip(Tail(s))
    ELSE IF IsSpace(s[Len(s)]) THEN Strip(SubSeq(s, 1, Len(s) - 1))
    ELSE s

\* SentimentAnalyzer.clean_text
clean_text(text) ==
    Strip(CollapseSpaces(
            LettersAndSpaces(
              RemoveTags(RemoveUrls(Lower(text), 1), 1)), 1))

\* str.split(): the words of a text
RECURSIVE Words(_, _)
Words(s, i) ==
    IF i > Len(s) THEN << >>
    ELSE IF IsSpace(s[i]) THEN Words(s, i + 1)
    ELSE <<SubSeq(s, i, i + NonSpaceRun(s, i) - 1)>>
           \o Words(s, i + NonSpaceRun(s, i))

\* The polarity lexicon of TextBlob, a library outside the repository, is
\* stood for by a few words; polarities are in hundredths.
Lexicon == <<
    <<<<"g","r","e","a","t">>, 80>>,
    <<<<"e","x","c","e","l","l","e","n","t">>, 100>>,
    <<<<"p","o","o","r">>, -40>>,
    <<<<"t","e","r","r","i","b","l","e">>, -100>>,
    <<<<"g","o","o","d">>, 70>>,
    <<<<"m","o","r","e">>, 50>> >>

LexiconValue(w) ==
    IF \E k \in 1 .. Len(Lexicon) : Lexicon[k][1] = w
    THEN Lexicon[CHOOSE k \in 1 .. Len(Lexicon) : Lexicon[k][1] = w][2]
    ELSE 0

RECURSIVE SumSeq(_)
SumSeq(ns) == IF ns = << >> THEN 0 ELSE Head(ns) + SumSeq(Tail(ns))

\* TextBlob(text).sentiment.polarity, in hundredths: the mean polarity of the
\* words of the text the lexicon knows, 0 when it knows none
TextBlobPolarity(text) ==
    LET known == SelectSeq(Words(text, 1), LAMBDA w : LexiconValue(w) # 0)
        total == SumSeq([k \in 1 .. Len(known) |-> LexiconValue(known[k])])
    IN IF known = << >> THEN 0
       ELSE IF total >= 0 THEN total \div Len(known)
       ELSE -((-total) \div Len(known))

\* the thresholds turned into greater-or-equal
sentiment_of_inclusive(text, polarity) ==
    IF text = << >> THEN [score |-> 0, label |-> "neutral"]
    ELSE IF polarity >= 10 THEN [score |-> polarity, label |-> "positive"]
    ELSE IF polarity <= -10 THEN [score |-> polarity, label |-> "negative"]
    ELSE [score |-> polarity, label |-> "neutral"]

\* lines 69-81: the pair get_sentiment returns when TextBlob gives the text
\* this polarity; 0.1 is 10 hundredths
sentiment_of(text, polarity) ==
    IF text = << >> THEN [score |-> 0, label |-> "neutral"]
    ELSE IF polarity > 10 THEN [score |-> polarity, label |-> "positive"]
    ELSE IF polarity < -10 THEN [score |-> polarity, label |-> "negative"]
    ELSE [score |-> polarity, label |-> "neutral"]

\* SentimentAnalyzer.get_sentiment
get_sentiment(text) == sentiment_of(text, TextBlobPolarity(text))

\* self.policy_keywords, in its order: <<policy, keywords>>
policy_keywords == <<
    <<<<"D","i","g","i","t","a","l"," ","I","n","d","i","a">>,
      <<<<"d","i","g","i","t","a","l"," ","i","n","d","i","a">>,
        <<"d","i","g","i","t","i","z","a","t","i","o","n">>,
        <<"e","-","g","o","v","e","r","n","a","n","c","e">>,
        <<"d","i","g","i","t","a","l"," ","p","a","y","m","e","n","t">>>> >>,
    <<<<"S","w","a","c","h","h"," ","B","h","a","r","a","t">>,
      <<<<"s","w","a","c","h","h"," ","b","h","a","r","a","t">>,
        <<"c","l","e","a","n"," ","i","n","d","i","a">>,
        <<"c","l","e","a","n","l","i","n","e","s","s">>,
        <<"t","o","i","l","e","t"," ","c","o","n","s","t","r","u","c","t","i","o","n">>>> >>,
    <<<<"M","a","k","e"," ","i","n"," ","I","n","d","i","a">>,
      <<<<"m","a","k","e"," ","i","n"," ","i","n","d","i","a">>,
        <<"m","a","n","u","f","a","c","t","u","r","i","n","g">>,
        <<"a","t","m","a","n","i","r","b","h","a","r">>,
        <<"s","e","l","f"," ","r","e","l","i","a","n","t">>>> >>,
    <<<<"J","a","n"," ","D","h","a","n"," ","Y","o","j","a","n","a">>,
      <<<<"j","a","n"," ","d","h","a","n">>,
        <<"b","a","n","k"," ","a","c","c","o","u","n","t">>,
        <<"f","i","n","a","n","c","i","a","l"," ","i","n","c","l","u","s","i","o","n">>>> >>,
    <<<<"A","y","u","s","h","m","a","n"," ","B","h","a","r","a","t">>,
      <<<<"a","y","u","s","h","m","a","n"," ","b","h","a","r","a","t">>,
        <<"h","e","a","l","t","h","c","a","r","e">>,
        <<"h","e","a","l","t","h"," ","i","n","s","u","r","a","n","c","e">>,
        <<"p","m","j","a","y">>>> >> >>

General == <<"G","e","n","e","r","a","l">>
Unknown == <<"U","n","k","n","o","w","n">>
All == <<"A","l","l">>

\* "any(keyword in text_lower for keyword in keywords)"
AnyKeyword(text_lower, keywords) ==
    \E k \in 1 .. Len(keywords) : Contains(text_lower, keywords[k])

\* the last policy with a keyword in the text, not the first
classify_policy_last(text) ==
    LET text_lower == Lower(text)
        hits == {k \in 1 .. Len(policy_keywords) :
                    AnyKeyword(text_lower, policy_keywords[k][2])}
    IN IF hits = {} THEN General
       ELSE policy_keywords[CHOOSE k \in hits : \A j \in hits : k >= j][1]

\* SentimentAnalyzer.classify_policy
classify_policy(text) ==
    LET text_lower == Lower(text)
        hits == {k \in 1 .. Len(policy_keywords) :
                    AnyKeyword(text_lower, policy_keywords[k][2])}
    IN IF hits = {} THEN General
       ELSE policy_keywords[CHOOSE k \in hits : \A j \in hits : k <= j][1]

\* the list of extract_region
regions == <<
    <<"m","u","m","b","a","i">>,
    <<"d","e","l","h","i">>,
    <<"b","a","n","g","a","l","o","r","e">>,
    <<"c","h","e","n","n","a","i">>,
    <<"k","o","l","k","a","t","a">>,
    <<"h","y","d","e","r","a","b","a","d">>,
    <<"p","u","n","e">>,
    <<"a","h","m","e","d","a","b","a","d">>,
    <<"j","a","i","p","u","r">>,
    <<"l","u","c","k","n","o","w">>,
    <<"k","a","n","p","u","r">>,
    <<"n","a","g","p","u","r">> >>

\* str.title(): every letter that follows a non-letter in upper case, the
\* others in lower case
Title(s) ==
    [i \in 1 .. Len(s) |->
        IF i = 1 \/ ~IsLetter(s[i - 1]) THEN UpperChar(s[i]) ELSE LowerChar(s[i])]

\* the region as the list writes it, without str.title()
extract_region_as_listed(text) ==
    LET text_lower == Lower(text)
        hits == {k \in 1 .. Len(regions) : Contains(text_lower, regions[k])}
    IN IF hits = {} THEN Unknown
       ELSE regions[CHOOSE k \in hits : \A j \in hits : k <= j]

\* SentimentAnalyzer.extract_region
extract_region(text) ==
    LET text_lower == Lower(text)
        hits == {k \in 1 .. Len(regions) : Contains(text_lower, regions[k])}
    IN IF hits = {} THEN Unknown
       ELSE Title(regions[CHOOSE k \in hits : \A j \in hits : k <= j])

-----------------------------------------------------------------------------
(* Dates.  A datetime is its clock reading in seconds and whether it       *)
(* carries a time zone; every aware datetime of the model is in UTC.       *)

\* datetime.fromtimestamp(ts): the naive local time of an epoch timestamp
fromtimestamp(ts) == [t |-> ts + utcoffset, aware |-> FALSE]

\* an aware UTC datetime (tweet.created_at, pd.to_datetime of an ISO ...Z string)
utc_datetime(ts) == [t |-> ts, aware |-> TRUE]

-----------------------------------------------------------------------------
(* What the sources may answer *)

CreatedTimes == {T0 - 8 * SecondsPerDay,
                 T0 - DefaultDaysBack * SecondsPerDay + 3 * PolitenessDelay,
                 T0 - 3600}

Post(title, created_utc) == [title |-> title, selftext |-> << >>,
                              created_utc |-> created_utc, ups |-> 3,
                              num_comments |-> 1]

\* one text posted three times (too old, on the edge of the default window,
\* recent) and another text posted once
PostUniverse == {Post(TextA, c) : c \in CreatedTimes} \cup {Post(TextB, T0 - 3600)}

\* a tweet whose text or created_at is missing is skipped by the adapter
TweetUniverse == {[text |-> x[1], created_at |-> x[2], like_count |-> 2,
                   retweet_count |-> 0] :
                     x \in {<<TextA, T0 - 3600>>, <<TextA, None>>}}

\* the posts answered to a direct call of the Reddit adapter
DirectPosts == {Post(TextA, T0 - 3600)}

CommentUniverse == [textOriginal : {TextA}, publishedAt : {T0 - 3600},
                    likeCount : {1}]

\* requests.get(...): an HTTP response, or an exception raised by the call or
\* by the decoding of a malformed body
HttpResponses(Items, n) ==
    [kind : {"http"}, status : {200}, items : SeqsUpTo(Items, n)]
      \cup [kind : {"http"}, status : {429, 500}, items : {<< >>}]
      \cup [kind : {"ConnectionError", "MalformedBody"}, status : {0}, items : {<< >>}]

\* tweepy.Paginator(...).flatten(): tweets, or one of the exceptions caught
TwitterResponses ==
    [kind : {"ok"}, items : SeqsUpTo(TweetUniverse, 1)]
      \cup [kind : {"TooManyRequests", "TweepyException", "Exception"}, items : {<< >>}]

-----------------------------------------------------------------------------
(* The source adapters.  Each gives the DataFrame returned (a sequence of  *)
(* rows), whether the network call was issued, and whether an exception    *)
(* left the adapter.                                                       *)

Returned(frame, network) == [frame |-> frame, network |-> network, raised |-> FALSE]
Raised == [frame |-> << >>, network |-> TRUE, raised |-> TRUE]

TweetRow(tw) == [date |-> utc_datetime(tw.created_at), text |-> tw.text,
                 platform |-> "Twitter", likes |-> tw.like_count,
                 shares |-> tw.retweet_count]

RedditRow(post) == [date |-> fromtimestamp(post.created_utc),
                    text |-> post.title \o <<" ">> \o post.selftext,
                    platform |-> "Reddit", likes |-> post.ups,
                    shares |-> post.num_comments]

YouTubeRow(c) == [date |-> utc_datetime(c.publishedAt), text |-> c.textOriginal,
                  platform |-> "YouTube", likes |-> c.likeCount, shares |-> 0]

\* "if tweet and tweet.created_at and tweet.text"
TweetKept(tw) == tw.created_at # None /\ tw.text # << >>

RECURSIVE TweetRows(_)
TweetRows(tweets) ==
    IF tweets = << >> THEN << >>
    ELSE (IF TweetKept(Head(tweets)) THEN <<TweetRow(Head(tweets))>> ELSE << >>)
           \o TweetRows(Tail(tweets))

\* a suspension that never ends
SuspendedForever(hit, t) == hit # None /\ hit # 0

\* "TWITTER_LAST_RATE_LIMIT_HIT and (time.time() - TWITTER_LAST_RATE_LIMIT_HIT < 900)"
Suspended(hit, t) == hit # None /\ hit # 0 /\ t - hit < CoolDown

\* scrape_twitter_data, given self.twitter_api, the global, the clock and
\* what the network would answer
scrape_twitter_data(api, hit, t, resp) ==
    IF api = "None" THEN Returned(<< >>, FALSE)
    ELSE IF Suspended(hit, t) THEN Returned(<< >>, FALSE)
    ELSE IF resp.kind = "ok" THEN Returned(TweetRows(resp.items), TRUE)
    ELSE Returned(<< >>, TRUE)

\* the timestamp written at every exception, not at TooManyRequests alone
twitter_hit_after_any_exception(api, hit, t, resp) ==
    IF api # "None" /\ ~Suspended(hit, t) /\ resp.kind # "ok"
    THEN t ELSE hit

\* the value scrape_twitter_data leaves in TWITTER_LAST_RATE_LIMIT_HIT
twitter_hit_after(api, hit, t, resp) ==
    IF api # "None" /\ ~Suspended(hit, t) /\ resp.kind = "TooManyRequests"
    THEN t ELSE hit

\* scrape_reddit_data without its "except Exception"
scrape_reddit_data_unguarded(resp) ==
    IF resp.kind # "http" THEN Raised
    ELSE IF resp.status = 200
         THEN Returned([i \in 1 .. Len(resp.items) |-> RedditRow(resp.items[i])], TRUE)
    ELSE Returned(<< >>, TRUE)

\* scrape_reddit_data, given what requests.get answers
scrape_reddit_data(resp) ==
    IF resp.kind # "http" THEN Returned(<< >>, TRUE)
    ELSE IF resp.status = 200
         THEN Returned([i \in 1 .. Len(resp.items) |-> RedditRow(resp.items[i])], TRUE)
    ELSE IF resp.status = 429 THEN Returned(<< >>, TRUE)
    ELSE Returned(<< >>, TRUE)

\* scrape_youtube_comments, given YOUTUBE_API_KEY and what requests.get answers
scrape_youtube_comments(key, resp) ==
    IF ~key THEN Returned(<< >>, FALSE)
    ELSE IF resp.kind # "http" THEN Returned(<< >>, TRUE)
    ELSE IF resp.status = 200
         THEN Returned([i \in 1 .. Len(resp.items) |-> YouTubeRow(resp.items[i])], TRUE)
    ELSE IF resp.status = 429 THEN Returned(<< >>, TRUE)
    ELSE Returned(<< >>, TRUE)

\* whether the answer is the source's 429 / too-many-requests signal
Is429(source, resp) ==
    IF source = "Twitter" THEN resp.kind = "TooManyRequests"
    ELSE resp.kind = "http" /\ resp.status = 429

\* the record of an adapter call: who called what when, what came back, the
\* time of the source's last 429 before the call, whether the adapter
\* was enabled (client configured, key present), and the kind of answer the
\* Twitter client gave when it was asked
CallRecord(source, s, q, resp, ret, enabled) ==
    [source |-> source, scraper |-> s, query |-> q, at |-> now,
     network |-> ret.network, frame |-> ret.frame, raised |-> ret.raised,
     hitBefore |-> hit429[source], enabled |-> enabled,
     got429 |-> ret.network /\ Is429(source, resp),
     kind |-> IF source = "Twitter" /\ ret.network THEN resp.kind ELSE "none"]

NoCall == [source |-> "none", scraper |-> 0, query |-> << >>, at |-> 0,
           network |-> FALSE, frame |-> << >>, raised |-> FALSE,
           hitBefore |-> None, enabled |-> FALSE, got429 |-> FALSE,
           kind |-> "none"]

\* the history of 429 signals after a call
Hit429After(source, resp, ret) ==
    IF ret.network /\ Is429(source, resp)
    THEN [hit429 EXCEPT ![source] = now] ELSE hit429

-----------------------------------------------------------------------------
(* The state after the modules are loaded and the scrapers constructed *)

\* scrape_policy_data not yet called: its locals, the history of its adapter
\* calls (issued) and what it gave its caller (status, result)
NoRun == [status |-> "none", caller |-> "none", scraper |-> 0,
          policy_name |-> << >>, days_back |-> 0, queries |-> << >>, i |-> 0,
          all_data |-> << >>, issued |-> << >>, utc_now |-> None,
          result |-> << >>]

\* the aggregates of the dashboard, not computed
NotComputed == [computed |-> FALSE, total |-> 0,
                positive_pct |-> [num |-> 0, den |-> 1],
                avg_sentiment |-> [num |-> 0, den |-> 1], total_likes |-> 0]

\* the key insights are not derived
NoInsights == [derived |-> FALSE,
               most_positive_policy |-> << >>, most_negative_policy |-> << >>,
               best_region |-> << >>, best_platform |-> << >>]

\* the dashboard script before its first statement
AppStart == [pc |-> "import", data |-> << >>, df |-> << >>,
             date_range |-> << >>, selected_policy |-> << >>,
             selected_region |-> << >>, selected_platform |-> "",
             filtered_df |-> << >>, message |-> "", metrics |-> NotComputed,
             insights |-> NoInsights]

\* no text has been given to the analyzer
NotAnalyzed == [pc |-> "none", text |-> << >>,
                cleaned_text |-> << >>, cleaned_again |-> << >>,
                policy |-> << >>, region |-> << >>,
                polarity |-> 0, sentiment |-> [score |-> 0, label |-> ""]]

Init ==
    /\ now = T0
    /\ bearer_token \in BOOLEAN
    /\ youtube_api_key \in BOOLEAN
    /\ utcoffset \in UtcOffsets
    /\ TWITTER_LAST_RATE_LIMIT_HIT = None
    /\ twitter_api = [s \in Scrapers |-> "None"]
    /\ hit429 = [src \in Sources |-> None]
    /\ last = NoCall
    /\ pc = "idle"
    /\ run = NoRun
    /\ app = AppStart
    /\ analyzer = NotAnalyzed

DirectQueries == {QueryGst, Lower(TextA)}

-----------------------------------------------------------------------------
(* Calls of the adapters from outside scrape_policy_data *)

\* self.twitter_api = self.setup_twitter_api(): a client when the bearer
\* token is set, None otherwise
setup_twitter_api(s) ==
    /\ pc = "idle"
    /\ twitter_api' = [twitter_api EXCEPT ![s] = IF bearer_token THEN "Client" ELSE "None"]
    /\ UNCHANGED <<now, bearer_token, youtube_api_key, utcoffset,
                   TWITTER_LAST_RATE_LIMIT_HIT, hit429, last, pc, run, app, analyzer>>

TwitterFetch(s, q, resp) ==
    LET ret == scrape_twitter_data(twitter_api[s], TWITTER_LAST_RATE_LIMIT_HIT, now, resp)
    IN /\ pc = "idle"
       /\ TWITTER_LAST_RATE_LIMIT_HIT' =
              twitter_hit_after(twitter_api[s], TWITTER_LAST_RATE_LIMIT_HIT, now, resp)
       /\ last' = CallRecord("Twitter", s, q, resp, ret, twitter_api[s] # "None")
       /\ hit429' = Hit429After("Twitter", resp, ret)
       /\ UNCHANGED <<now, bearer_token, youtube_api_key, utcoffset, twitter_api,
                      pc, run, app, analyzer>>

RedditFetch(s, q, resp) ==
    LET ret == scrape_reddit_data(resp)
    IN /\ pc = "idle"
       /\ last' = CallRecord("Reddit", s, q, resp, ret, TRUE)
       /\ hit429' = Hit429After("Reddit", resp, ret)
       /\ UNCHANGED <<now, bearer_token, youtube_api_key, utcoffset,
                      TWITTER_LAST_RATE_LIMIT_HIT, twitter_api, pc, run, app, analyzer>>

YouTubeFetch(s, q, resp) ==
    LET ret == scrape_youtube_comments(youtube_api_key, resp)
    IN /\ pc = "idle"
       /\ last' = CallRecord("YouTube", s, q, resp, ret, youtube_api_key)
       /\ hit429' = Hit429After("YouTube", resp, ret)
       /\ UNCHANGED <<now, bearer_token, youtube_api_key, utcoffset,
                      TWITTER_LAST_RATE_LIMIT_HIT, twitter_api, pc, run, app, analyzer>>

\* time passes between two calls
Wait(d) ==
    /\ pc = "idle"
    /\ now + d <= T0 + MaxElapsed
    /\ now' = now + d
    /\ UNCHANGED <<bearer_token, youtube_api_key, utcoffset,
                   TWITTER_LAST_RATE_LIMIT_HIT, twitter_api, hit429, last,
                   pc, run, app, analyzer>>

Next ==
    \/ \E s \in Scrapers : setup_twitter_api(s)
    \/ \E s \in Scrapers, q \in DirectQueries, resp \in TwitterResponses :
          TwitterFetch(s, q, resp)
    \/ \E s \in Scrapers, q \in {QueryGst}, resp \in HttpResponses(DirectPosts, 1) :
          RedditFetch(s, q, resp)
    \/ \E s \in Scrapers, q \in {QueryGst}, resp \in HttpResponses(CommentUniverse, 1) :
          YouTubeFetch(s, q, resp)
    \/ \E d \in Waits : Wait(d)

\* direct calls are followed on a host whose local time is UTC; the local
\* time only shifts the dates of the rows Reddit answers (line 110)
InitDirect == Init /\ utcoffset = 0

Spec == InitDirect /\ [][Next]_vars

-----------------------------------------------------------------------------
(* scrape_policy_data *)

\* the dict of scrape_policy_data, in its order: <<topic, queries>>
policy_queries == <<
    <<<<"D","i","g","i","t","a","l"," ","I","n","d","i","a">>,
      <<<<"d","i","g","i","t","a","l"," ","i","n","d","i","a">>,
        <<"d","i","g","i","t","a","l","i","z","a","t","i","o","n"," ","i","n","d","i","a">>,
        <<"e","-","g","o","v","e","r","n","a","n","c","e">>>> >>,
    <<<<"S","w","a","c","h","h"," ","B","h","a","r","a","t">>,
      <<<<"s","w","a","c","h","h"," ","b","h","a","r","a","t">>,
        <<"c","l","e","a","n"," ","i","n","d","i","a">>,
        <<"s","w","a","c","h","h"," ","m","i","s","s","i","o","n">>>> >>,
    <<<<"M","a","k","e"," ","i","n"," ","I","n","d","i","a">>,
      <<<<"m","a","k","e"," ","i","n"," ","i","n","d","i","a">>,
        <<"a","t","m","a","n","i","r","b","h","a","r"," ","b","h","a","r","a","t">>,
        <<"m","a","n","u","f","a","c","t","u","r","i","n","g"," ","i","n","d","i","a">>>> >>,
    <<<<"J","a","n"," ","D","h","a","n"," ","Y","o","j","a","n","a">>,
      <<<<"j","a","n"," ","d","h","a","n"," ","y","o","j","a","n","a">>,
        <<"f","i","n","a","n","c","i","a","l"," ","i","n","c","l","u","s","i","o","n"," ","i","n","d","i","a">>>> >>,
    <<<<"A","y","u","s","h","m","a","n"," ","B","h","a","r","a","t">>,
      <<<<"a","y","u","s","h","m","a","n"," ","b","h","a","r","a","t">>,
        <<"h","e","a","l","t","h","c","a","r","e"," ","i","n","d","i","a">>,
        <<"p","m","j","a","y">>>> >> >>

DigitalIndia == policy_queries[1][1]
JanDhanYojana == policy_queries[4][1]
Gst == <<"G","S","T">>

\* policy_queries.get(policy_name, [policy_name.lower()])
QueriesFor(policy_name) ==
    IF \E k \in 1 .. Len(policy_queries) : policy_queries[k][1] = policy_name
    THEN policy_queries[CHOOSE k \in 1 .. Len(policy_queries) :
                            policy_queries[k][1] = policy_name][2]
    ELSE <<Lower(policy_name)>>

\* pd.concat(all_data, ignore_index=True)
RECURSIVE concat(_)
concat(frames) ==
    IF frames = << >> THEN << >> ELSE Head(frames) \o concat(Tail(frames))

\* make_utc_aware_series on one date: a naive date is tagged UTC as it
\* reads, an aware one is converted to UTC
make_utc_aware(d) == [t |-> d.t, aware |-> TRUE]

make_utc_aware_series(frame) ==
    [k \in 1 .. Len(frame) |-> [frame[k] EXCEPT !.date = make_utc_aware(frame[k].date)]]

\* utc_now - timedelta(days=days_back)
cutoff_date(utc_now, days_back) == utc_datetime(utc_now - days_back * SecondsPerDay)

\* combined_data['date'] > cutoff_date
StrictlyInWindow(date, cutoff) == date.t > cutoff.t

\* combined_data['date'] >= cutoff_date
InWindow(date, cutoff) == date.t >= cutoff.t

\* drop_duplicates(subset=['text'], keep='last')
KeptLast(frame, k) == \A j \in k + 1 .. Len(frame) : frame[j].text # frame[k].text

\* whether drop_duplicates(subset=['text']) keeps row k of the frame
KeptByDropDuplicates(frame, k) == \A j \in 1 .. k - 1 : frame[j].text # frame[k].text

\* combined_data.drop_duplicates(subset=['text'])
RECURSIVE drop_duplicates_from(_, _)
drop_duplicates_from(frame, k) ==
    IF k > Len(frame) THEN << >>
    ELSE (IF KeptByDropDuplicates(frame, k) THEN <<frame[k]>> ELSE << >>)
           \o drop_duplicates_from(frame, k + 1)

drop_duplicates(frame) == drop_duplicates_from(frame, 1)

\* the rows of the frame dated at or after the cutoff, in order
RECURSIVE since(_, _)
since(frame, cutoff) ==
    IF frame = << >> THEN << >>
    ELSE (IF InWindow(Head(frame).date, cutoff) THEN <<Head(frame)>> ELSE << >>)
           \o since(Tail(frame), cutoff)

\* the duplicates dropped before the cutoff is applied
post_fetch_dedup_first(all_data, utc_now, days_back) ==
    IF all_data = << >> THEN << >>
    ELSE since(drop_duplicates(make_utc_aware_series(concat(all_data))),
               cutoff_date(utc_now, days_back))

\* lines 214-236: what scrape_policy_data returns
post_fetch(all_data, utc_now, days_back) ==
    IF all_data = << >> THEN << >>
    ELSE drop_duplicates(since(make_utc_aware_series(concat(all_data)),
                               cutoff_date(utc_now, days_back)))

\* a delay taken only after a fetch that brought data
delay_after_data(frame) == IF frame = << >> THEN 0 ELSE PolitenessDelay

\* the seconds slept after the fetch of one query
inter_query_delay(frame) == PolitenessDelay

Topics == {DigitalIndia, JanDhanYojana, Gst}
DaysBack == {DefaultDaysBack, 1}

\* scrape_policy_data(policy_name, days_back) is entered, lines 177-191
scrape_policy_data(caller, s, policy_name, days_back) ==
    /\ pc = "idle"
    /\ run.status = "none"
    /\ run' = [NoRun EXCEPT !.status = "running", !.caller = caller,
                            !.scraper = s, !.policy_name = policy_name,
                            !.days_back = days_back,
                            !.queries = QueriesFor(policy_name), !.i = 1]
    /\ pc' = IF QueriesFor(policy_name) = << >> THEN "post" ELSE "fetch"

\* lines 193-209: the adapter call of one query
RunFetch(resp) ==
    LET q == run.queries[run.i]
        ret == scrape_reddit_data(resp)
        entry == [source |-> "Reddit", query |-> q, at |-> now,
                  kind |-> resp.kind, status |-> resp.status,
                  frame |-> ret.frame]
    IN /\ pc = "fetch"
       /\ last' = CallRecord("Reddit", run.scraper, q, resp, ret, TRUE)
       /\ hit429' = Hit429After("Reddit", resp, ret)
       /\ IF ret.raised
          THEN /\ pc' = "idle"
               /\ run' = [run EXCEPT !.status = "raised",
                                     !.issued = Append(@, entry)]
          ELSE /\ pc' = "sleep"
               /\ run' = [run EXCEPT
                            !.all_data = IF ret.frame # << >>
                                         THEN Append(@, ret.frame) ELSE @,
                            !.issued = Append(@, entry)]
       /\ UNCHANGED <<now, bearer_token, youtube_api_key, utcoffset,
                      TWITTER_LAST_RATE_LIMIT_HIT, twitter_api, app, analyzer>>

\* line 212: time.sleep(5), and the loop goes on or ends
RunSleep ==
    /\ pc = "sleep"
    /\ now' = now + inter_query_delay(last.frame)
    /\ run' = [run EXCEPT !.i = @ + 1]
    /\ pc' = IF run.i + 1 > Len(run.queries) THEN "post" ELSE "fetch"
    /\ UNCHANGED <<bearer_token, youtube_api_key, utcoffset,
                   TWITTER_LAST_RATE_LIMIT_HIT, twitter_api, hit429, last, app, analyzer>>

\* lines 214-236: the post-fetch steps and the return
RunPost ==
    /\ pc = "post"
    /\ run' = [run EXCEPT !.status = "returned", !.utc_now = now,
                          !.result = post_fetch(run.all_data, now, run.days_back)]
    /\ pc' = "idle"
    /\ UNCHANGED <<now, bearer_token, youtube_api_key, utcoffset,
                   TWITTER_LAST_RATE_LIMIT_HIT, twitter_api, hit429, last, app, analyzer>>

\* main() of data_scraper.py: the scraper it constructs
MainScraper == 1

\* a caller of the scraper, as main() of data_scraper.py is
ScraperMain(policy_name, days_back) ==
    /\ scrape_policy_data("main", MainScraper, policy_name, days_back)
    /\ UNCHANGED <<now, bearer_token, youtube_api_key, utcoffset,
                   TWITTER_LAST_RATE_LIMIT_HIT, twitter_api, hit429, last, app, analyzer>>

NextPolicy ==
    \/ \E p \in Topics, d \in DaysBack : ScraperMain(p, d)
    \/ \E resp \in HttpResponses(PostUniverse, MaxPosts) : RunFetch(resp)
    \/ RunSleep
    \/ RunPost

\* __init__ leaves twitter_api None (line 26) and a run never sets the client
\* up, so the bearer token is not read in a run
InitPolicy == Init /\ ~bearer_token

SpecPolicy == InitPolicy /\ [][NextPolicy]_vars

-----------------------------------------------------------------------------
(* The dashboard script, app.py *)

MaxRows == 2        \* rows of the record set the dashboard loads

SamplePost3 == <<"M","a","k","e"," ","i","n"," ","I","n","d","i","a"," ","p","o","l","i","c","y"," ","i","s"," ","b","o","o","s","t","i","n","g"," ","l","o","c","a","l"," ","m","a","n","u","f","a","c","t","u","r","i","n","g"," ","j","o","b","s">>
SamplePost12 == <<"C","l","e","a","n","l","i","n","e","s","s"," ","d","r","i","v","e","s"," ","w","o","r","k","i","n","g"," ","w","e","l","l"," ","i","n"," ","m","y"," ","n","e","i","g","h","b","o","r","h","o","o","d">>
Mumbai == <<"M","u","m","b","a","i">>
Delhi == <<"D","e","l","h","i">>
Goa == <<"G","o","a">>

\* datetime.now() - timedelta(days=90), a naive local time
start_date == now + utcoffset - 90 * SecondsPerDay

\* one row of generate_sample_data: the post, with or without a sentiment
\* word appended, random_days, platform and region
SampleRow(base_post, random_days, platform, region) ==
    [date |-> start_date + random_days * SecondsPerDay, text |-> base_post,
     platform |-> platform, region |-> region, likes |-> 10, shares |-> 1]

\* some of the rows generate_sample_data may draw
SampleRows ==
    {SampleRow(SamplePost3, 0, "Twitter", Mumbai),
     SampleRow(SamplePost3 \o <<" ","g","r","e","a","t">>, 1, "Reddit", Mumbai),
     SampleRow(SamplePost12, 2, "Reddit", Delhi)}

\* DataGenerator.generate_sample_data: num_posts rows, with a region column
generate_sample_data(num_posts) ==
    {[has_region |-> TRUE, has_likes |-> TRUE, rows |-> rows] :
        rows \in [1 .. num_posts -> SampleRows]}

\* some rows of an uploaded CSV file; the region and likes they carry are
\* read only when the file has those columns
UploadRows ==
    {[date |-> T0 - SecondsPerDay + 7200,
      text |-> <<"G","S","T"," ","i","s"," ","t","e","r","r","i","b","l","e"," ","i","n"," ","K","a","n","p","u","r"," ","#","t","a","x">>,
      platform |-> "YouTube", region |-> Goa, likes |-> 4, shares |-> 0],
     [date |-> T0 - 1,
      text |-> <<"p","m","j","a","y"," ","i","s"," ","g","o","o","d"," ","w","w","w",".","p","m","j","a","y",".","g","o","v",".","i","n">>,
      platform |-> "Reddit", region |-> All, likes |-> 6, shares |-> 2]}

\* pd.read_csv(uploaded_file): a file of at least one row (one without rows
\* does not reach the filters: line 213 has no date to take its bounds from)
UploadedFiles ==
    {[has_region |-> c[1], has_likes |-> c[2], rows |-> rows] :
        c \in {<<TRUE, TRUE>>, <<FALSE, FALSE>>},
        rows \in SeqsUpTo(UploadRows, MaxRows) \ {<< >>}}

\* lines 186-205: the labels of one row
LabelRow(row, has_region, has_likes) ==
    LET cleaned_text == clean_text(row.text)
        sentiment == get_sentiment(cleaned_text)
    IN [date |-> row.date, text |-> row.text, platform |-> row.platform,
        likes |-> IF has_likes THEN row.likes ELSE None,
        cleaned_text |-> cleaned_text,
        sentiment_score |-> sentiment.score,
        sentiment_label |-> sentiment.label,
        policy |-> classify_policy(cleaned_text),
        region |-> IF has_region THEN row.region ELSE extract_region(cleaned_text)]

\* lines 186-205: the labeled record set
process(file) ==
    [k \in 1 .. Len(file.rows) |-> LabelRow(file.rows[k], file.has_region, file.has_likes)]

\* .dt.date: the calendar day of a timestamp
DateOf(ts) == ts \div SecondsPerDay

\* the days, and lines 219-227: the values of the policy, region and platform
\* columns of a record set
Dates(frame) == {DateOf(frame[k].date) : k \in 1 .. Len(frame)}
Policies(frame) == {frame[k].policy : k \in 1 .. Len(frame)}
Regions(frame) == {frame[k].region : k \in 1 .. Len(frame)}
Platforms(frame) == {frame[k].platform : k \in 1 .. Len(frame)}

MinDate(frame) == CHOOSE d \in Dates(frame) :
                     \A e \in Dates(frame) : d <= e
MaxDate(frame) == CHOOSE d \in Dates(frame) :
                     \A e \in Dates(frame) : d >= e

\* what st.sidebar.date_input may return: a range of days between the first
\* and the last of the record set, or its start alone while the user picks
DateRanges(frame) ==
    LET days == MinDate(frame) .. MaxDate(frame)
    IN {<<a>> : a \in days}
         \cup {<<c[1], c[2]>> : c \in {d \in days \X days : d[1] <= d[2]}}

\* the date filter with the end of the range left out
date_filter_before_end(frame, date_range) ==
    IF Len(date_range) = 2
    THEN SelectSeq(frame, LAMBDA r : /\ DateOf(r.date) >= date_range[1]
                                     /\ DateOf(r.date) < date_range[2])
    ELSE frame

\* lines 233-237
date_filter(frame, date_range) ==
    IF Len(date_range) = 2
    THEN SelectSeq(frame, LAMBDA r : /\ DateOf(r.date) >= date_range[1]
                                     /\ DateOf(r.date) <= date_range[2])
    ELSE frame

\* lines 239-240
policy_filter(frame, selected_policy) ==
    IF selected_policy # All
    THEN SelectSeq(frame, LAMBDA r : r.policy = selected_policy) ELSE frame

\* lines 242-243
region_filter(frame, selected_region) ==
    IF selected_region # All
    THEN SelectSeq(frame, LAMBDA r : r.region = selected_region) ELSE frame

\* lines 245-246
platform_filter(frame, selected_platform) ==
    IF selected_platform # "All"
    THEN SelectSeq(frame, LAMBDA r : r.platform = selected_platform) ELSE frame

\* lines 230-246
apply_filters(df, date_range, selected_policy, selected_region, selected_platform) ==
    platform_filter(
      region_filter(
        policy_filter(date_filter(df, date_range), selected_policy),
        selected_region),
      selected_platform)

\* no check for an empty record set
never_empty(frame) == FALSE

\* filtered_df.empty
is_empty(frame) == frame = << >>

\* lines 253-268: the four metrics; a fraction is kept as numerator and
\* denominator, and a denominator of 0 is the division by zero
summarize(frame) ==
    [computed |-> TRUE,
     total |-> Len(frame),
     positive_pct |->
        [num |-> 100 * Len(SelectSeq(frame, LAMBDA r : r.sentiment_label = "positive")),
         den |-> Len(frame)],
     avg_sentiment |->
        [num |-> SumSeq([k \in 1 .. Len(frame) |-> frame[k].sentiment_score]),
         den |-> Len(frame)],
     total_likes |->
        SumSeq([k \in 1 .. Len(frame) |->
                  IF frame[k].likes = None THEN 0 ELSE frame[k].likes])]

-----------------------------------------------------------------------------
(* Key insights (app.py lines 344-363) *)

\* the characters of the keys in the order of their code points
CodeOrder == <<" ">> \o Upper \o LowerOf
Ord(c) == CHOOSE i \in 1 .. Len(CodeOrder) : CodeOrder[i] = c

\* a < b for two str, as sorting compares them
RECURSIVE TextLess(_, _)
TextLess(a, b) ==
    IF b = << >> THEN FALSE
    ELSE IF a = << >> THEN TRUE
    ELSE IF a[1] = b[1] THEN TextLess(Tail(a), Tail(b))
    ELSE Ord(a[1]) < Ord(b[1])

\* the platform names as text
PlatformText == [Twitter |-> <<"T","w","i","t","t","e","r">>,
                 Reddit |-> <<"R","e","d","d","i","t">>,
                 YouTube |-> <<"Y","o","u","T","u","b","e">>]

\* the value of a row in the column a groupby is made on
key_of(row, column) ==
    IF column = "policy" THEN row.policy
    ELSE IF column = "region" THEN row.region
    ELSE PlatformText[row.platform]

\* the texts of a set in ascending order
RECURSIVE Sorted(_)
Sorted(S) ==
    IF S = {} THEN << >>
    ELSE LET least == CHOOSE a \in S : \A b \in S \ {a} : TextLess(a, b)
         IN <<least>> \o Sorted(S \ {least})

\* the keys in the order the rows bring them
RECURSIVE ByAppearance(_, _)
ByAppearance(frame, column) ==
    IF frame = << >> THEN << >>
    ELSE LET key == key_of(Head(frame), column)
         IN <<key>> \o ByAppearance(SelectSeq(Tail(frame),
                                      LAMBDA r : key_of(r, column) # key), column)

\* the groups in the order of first appearance of their keys (sort=False)
group_keys_by_appearance(frame, column) == ByAppearance(frame, column)

\* filtered_df.groupby(column): the keys of the groups, in the order groupby
\* gives them, which is sorted (sort=True is the default)
group_keys(frame, column) ==
    Sorted({key_of(frame[k], column) : k \in 1 .. Len(frame)})

\* ['sentiment_score'].mean() of one group, as numerator and denominator
group_mean(frame, column, key) ==
    LET group == SelectSeq(frame, LAMBDA r : key_of(r, column) = key)
    IN [num |-> SumSeq([k \in 1 .. Len(group) |-> group[k].sentiment_score]),
        den |-> Len(group)]

\* m1 < m2 for two means
MeanLess(m1, m2) == m1.num * m2.den < m2.num * m1.den

\* Series.idxmax(): the key of the first row of the series, in the order of
\* its index, whose mean is the maximum
idxmax(frame, column) ==
    LET keys == group_keys(frame, column)
        mean(k) == group_mean(frame, column, keys[k])
        first == CHOOSE k \in 1 .. Len(keys) :
                    /\ \A j \in 1 .. Len(keys) : ~MeanLess(mean(k), mean(j))
                    /\ \A j \in 1 .. k - 1 : MeanLess(mean(j), mean(k))
    IN keys[first]

\* Series.idxmin(): the same for the minimum
idxmin(frame, column) ==
    LET keys == group_keys(frame, column)
        mean(k) == group_mean(frame, column, keys[k])
        first == CHOOSE k \in 1 .. Len(keys) :
                    /\ \A j \in 1 .. Len(keys) : ~MeanLess(mean(j), mean(k))
                    /\ \A j \in 1 .. k - 1 : MeanLess(mean(k), mean(j))
    IN keys[first]

\* lines 344-363; no line after the division by the length of an empty
\* record set (line 259) runs
key_insights(frame) ==
    IF frame = << >> THEN NoInsights
    ELSE [derived |-> TRUE,
          most_positive_policy |-> idxmax(frame, "policy"),
          most_negative_policy |-> idxmin(frame, "policy"),
          best_region |-> idxmax(frame, "region"),
          best_platform |-> idxmax(frame, "platform")]

NoDataMessage == "No data available for selected filters"

\* lines 15-16: the scraper is built and asked for 'Digital India'
AppImport ==
    /\ app.pc = "import"
    /\ scrape_policy_data("app", MainScraper, DigitalIndia, DefaultDaysBack)
    /\ app' = [app EXCEPT !.pc = "scraping"]
    /\ UNCHANGED <<now, bearer_token, youtube_api_key, utcoffset,
                   TWITTER_LAST_RATE_LIMIT_HIT, twitter_api, hit429, last, analyzer>>

\* line 16 returns, and main() runs to line 205: the record set is the
\* sample data or the uploaded file, and it is labeled
AppLoad(file) ==
    /\ app.pc = "scraping"
    /\ pc = "idle"
    /\ run.status = "returned"
    /\ app' = [app EXCEPT !.pc = "labeled", !.data = run.result, !.df = process(file)]
    /\ UNCHANGED <<now, bearer_token, youtube_api_key, utcoffset,
                   TWITTER_LAST_RATE_LIMIT_HIT, twitter_api, hit429, last, pc, run, analyzer>>

\* main() returns at line 180: upload chosen and no file given
AppNoFile ==
    /\ app.pc = "scraping"
    /\ pc = "idle"
    /\ run.status = "returned"
    /\ app' = [app EXCEPT !.pc = "returned", !.data = run.result,
                          !.message = "Please upload a CSV file or use sample data"]
    /\ UNCHANGED <<now, bearer_token, youtube_api_key, utcoffset,
                   TWITTER_LAST_RATE_LIMIT_HIT, twitter_api, hit429, last, pc, run, analyzer>>

\* lines 207-246: the selection of the sidebar is read and the filters applied
AppFilter(date_range, selected_policy, selected_region, selected_platform) ==
    /\ app.pc = "labeled"
    /\ app' = [app EXCEPT
                 !.pc = "filtered",
                 !.date_range = date_range,
                 !.selected_policy = selected_policy,
                 !.selected_region = selected_region,
                 !.selected_platform = selected_platform,
                 !.filtered_df = apply_filters(app.df, date_range, selected_policy,
                                               selected_region, selected_platform)]
    /\ UNCHANGED <<now, bearer_token, youtube_api_key, utcoffset,
                   TWITTER_LAST_RATE_LIMIT_HIT, twitter_api, hit429, last, pc, run, analyzer>>

\* lines 248-363: the empty check, then the metrics and the key insights
AppShow ==
    /\ app.pc = "filtered"
    /\ IF is_empty(app.filtered_df)
       THEN app' = [app EXCEPT !.pc = "returned", !.message = NoDataMessage]
       ELSE app' = [app EXCEPT !.pc = "dashboard",
                               !.metrics = summarize(app.filtered_df),
                               !.insights = key_insights(app.filtered_df)]
    /\ UNCHANGED <<now, bearer_token, youtube_api_key, utcoffset,
                   TWITTER_LAST_RATE_LIMIT_HIT, twitter_api, hit429, last, pc, run, analyzer>>

\* what Reddit answers the dashboard's scrape
AppPosts == {Post(TextA, T0 - 3600)}
AppResponses == {r \in HttpResponses(AppPosts, 1) :
                    r.kind = "http" /\ (r.status = 429 \/ r.items # << >>)}

NextApp ==
    \/ AppImport
    \/ \E resp \in AppResponses : RunFetch(resp)
    \/ RunSleep
    \/ RunPost
    \/ \E file \in generate_sample_data(MaxRows) \cup UploadedFiles : AppLoad(file)
    \/ AppNoFile
    \/ /\ app.pc = "labeled"
       /\ \E date_range \in DateRanges(app.df),
             selected_policy \in {All} \cup Policies(app.df),
             selected_region \in {All} \cup Regions(app.df),
             selected_platform \in {"All"} \cup Platforms(app.df) :
             AppFilter(date_range, selected_policy, selected_region, selected_platform)
    \/ AppShow

\* the dashboard on a host without the Twitter and YouTube credentials
InitApp == Init /\ ~bearer_token /\ ~youtube_api_key

SpecApp == InitApp /\ [][NextApp]_vars

-----------------------------------------------------------------------------
(* The SentimentAnalyzer applied to one text (SpecAnalyzer) *)

MaxFragments == 2       \* pieces a text given to the analyzer is made of

\* pieces of text: keywords of three policies and two regions in several
\* cases, a URL with a hashtag, digits between letters, blanks and marks
Fragments == {
    <<"C","l","e","a","n"," ","I","n","d","i","a">>,
    <<"D","I","G","I","T","A","L"," ","p","a","y","m","e","n","t">>,
    <<"p","m","j","a","y"," ","i","n"," ","D","e","l","h","i">>,
    <<"M","U","M","B","A","I">>,
    <<"h","t","t","p","s",":","/","/","t",".","c","o","/","x","1"," ","#","t","a","g">>,
    <<"w","1","w","w">>,
    <<" ","G","o","o","d","!","!"," ">> }

Separators == {<< >>, <<" ">>}

\* the texts made of at most n fragments
RECURSIVE TextsOf(_)
TextsOf(n) ==
    IF n = 0 THEN {<< >>}
    ELSE TextsOf(n - 1) \cup
         {IF t = << >> THEN f ELSE t \o s \o f :
             t \in TextsOf(n - 1), s \in Separators, f \in Fragments}

Texts == TextsOf(MaxFragments)

\* blob.sentiment.polarity is in [-1, 1]; in hundredths
Polarities == -100 .. 100

\* analyzer.clean_text(text)
AnalyzerClean ==
    /\ analyzer.pc = "text"
    /\ analyzer' = [analyzer EXCEPT !.pc = "cleaned",
                                    !.cleaned_text = clean_text(analyzer.text)]
    /\ UNCHANGED <<now, bearer_token, youtube_api_key, utcoffset,
                   TWITTER_LAST_RATE_LIMIT_HIT, twitter_api, hit429, last,
                   pc, run, app>>

\* analyzer.clean_text of the cleaned text
AnalyzerCleanAgain ==
    /\ analyzer.pc = "cleaned"
    /\ analyzer' = [analyzer EXCEPT !.pc = "cleaned again",
                                    !.cleaned_again = clean_text(analyzer.cleaned_text)]
    /\ UNCHANGED <<now, bearer_token, youtube_api_key, utcoffset,
                   TWITTER_LAST_RATE_LIMIT_HIT, twitter_api, hit429, last,
                   pc, run, app>>

\* analyzer.classify_policy(text)
AnalyzerClassify ==
    /\ analyzer.pc = "cleaned again"
    /\ analyzer' = [analyzer EXCEPT !.pc = "classified",
                                    !.policy = classify_policy(analyzer.text)]
    /\ UNCHANGED <<now, bearer_token, youtube_api_key, utcoffset,
                   TWITTER_LAST_RATE_LIMIT_HIT, twitter_api, hit429, last,
                   pc, run, app>>

\* analyzer.extract_region(text)
AnalyzerRegion ==
    /\ analyzer.pc = "classified"
    /\ analyzer' = [analyzer EXCEPT !.pc = "located",
                                    !.region = extract_region(analyzer.text)]
    /\ UNCHANGED <<now, bearer_token, youtube_api_key, utcoffset,
                   TWITTER_LAST_RATE_LIMIT_HIT, twitter_api, hit429, last,
                   pc, run, app>>

\* analyzer.get_sentiment(text), TextBlob giving the text this polarity
AnalyzerSentiment(polarity) ==
    /\ analyzer.pc = "located"
    /\ analyzer' = [analyzer EXCEPT !.pc = "scored",
                                    !.polarity = polarity,
                                    !.sentiment = sentiment_of(analyzer.text, polarity)]
    /\ UNCHANGED <<now, bearer_token, youtube_api_key, utcoffset,
                   TWITTER_LAST_RATE_LIMIT_HIT, twitter_api, hit429, last,
                   pc, run, app>>

NextAnalyzer ==
    \/ AnalyzerClean
    \/ AnalyzerCleanAgain
    \/ AnalyzerClassify
    \/ AnalyzerRegion
    \/ \E polarity \in Polarities : AnalyzerSentiment(polarity)

\* an analyzer is given one of the texts; nothing else of the program runs
InitAnalyzer ==
    /\ now = T0
    /\ bearer_token = FALSE
    /\ youtube_api_key = FALSE
    /\ utcoffset = 0
    /\ TWITTER_LAST_RATE_LIMIT_HIT = None
    /\ twitter_api = [s \in Scrapers |-> "None"]
    /\ hit429 = [src \in Sources |-> None]
    /\ last = NoCall
    /\ pc = "idle"
    /\ run = NoRun
    /\ app = AppStart
    /\ analyzer \in {[NotAnalyzed EXCEPT !.pc = "text", !.text = text] : text \in Texts}

SpecAnalyzer == InitAnalyzer /\ [][NextAnalyzer]_vars

-----------------------------------------------------------------------------
(* Properties of the rate limit (Spec) *)

\* the last adapter call was made while the source's cool-down was running
InCoolDown == /\ last.source # "none"
              /\ last.hitBefore # None
              /\ last.at < last.hitBefore + CoolDown

\* the last adapter call was made after the source's cool-down had expired
CoolDownExpired == /\ last.source # "none"
                   /\ last.hitBefore # None
                   /\ last.at >= last.hitBefore + CoolDown

\* C1: for every source adapter, a fetch made less than 900 seconds after the
\* source's last 429 returns an empty result and issues no network call,
\* whatever the query and whichever scraper instance calls.
C1_CoolDownEverySource ==
    InCoolDown => ~last.network /\ last.frame = << >>

\* C2: a fetch of an enabled adapter made 900 seconds or more after the
\* source's last 429 issues the network call again: no source stays
\* suspended once the cool-down has expired.
C2_ExpiredCoolDownFetches ==
    CoolDownExpired /\ last.enabled => last.network

\* C2 witness: a Twitter fetch exactly 900 seconds after the 429 goes to the
\* network.
C2_Witness ==
    /\ last.source = "Twitter"
    /\ last.hitBefore # None
    /\ last.at = last.hitBefore + CoolDown
    /\ last.enabled
    /\ last.network

-----------------------------------------------------------------------------
(* Properties of scrape_policy_data (SpecPolicy) *)

\* the fetch of a query failed: no 200 answer, or none that could be decoded
FailedFetch(e) == e.kind # "http" \/ e.status # 200

\* the frames the fetches brought, the empty ones left out, in fetch order
RECURSIVE FramesOf(_)
FramesOf(entries) ==
    IF entries = << >> THEN << >>
    ELSE (IF Head(entries).frame # << >> THEN <<Head(entries).frame>> ELSE << >>)
           \o FramesOf(Tail(entries))

\* the documents fetched in a run, in concatenation order, dates tagged UTC
Fetched == make_utc_aware_series(concat(FramesOf(run.issued)))

\* the start of the lookback window of the run that returned
WindowStart == run.utc_now - run.days_back * SecondsPerDay

Range(f) == {f[k] : k \in 1 .. Len(f)}

\* C3: scrape_policy_data never fails on a source failure: a failed fetch
\* (non-200 status, 429, exception) adds no record, every query of the list
\* is still fetched, in order, and a run in which no fetch brought data
\* returns the empty record set.
C3_SourceFailureAbsorbed ==
    /\ run.status # "raised"
    /\ \A k \in 1 .. Len(run.issued) :
          FailedFetch(run.issued[k]) => run.issued[k].frame = << >>
    /\ run.all_data = FramesOf(run.issued)
    /\ pc = "post" \/ run.status = "returned" =>
          /\ Len(run.issued) = Len(run.queries)
          /\ \A k \in 1 .. Len(run.queries) : run.issued[k].query = run.queries[k]
    /\ run.status = "returned" /\ (\A k \in 1 .. Len(run.issued) : FailedFetch(run.issued[k]))
          => run.result = << >>

\* C3 witness: a run returned records although its first fetch got a 429 and
\* its second an exception.
C3_Witness ==
    /\ run.status = "returned"
    /\ Len(run.issued) = 3
    /\ run.issued[1].status = 429
    /\ run.issued[2].kind = "ConnectionError"
    /\ run.issued[3].frame # << >>
    /\ run.result # << >>

NoEqualTexts(frame) ==
    \A j, k \in 1 .. Len(frame) : frame[j].text = frame[k].text => j = k

\* the first document of the run with the text
FirstWithText(text) ==
    Fetched[CHOOSE k \in 1 .. Len(Fetched) :
               /\ Fetched[k].text = text
               /\ \A j \in 1 .. k - 1 : Fetched[j].text # text]

\* the first document of the run with the text among those inside the window
FirstInWindowWithText(text) ==
    Fetched[CHOOSE k \in 1 .. Len(Fetched) :
               /\ Fetched[k].text = text
               /\ Fetched[k].date.t >= WindowStart
               /\ \A j \in 1 .. k - 1 :
                     Fetched[j].text = text => Fetched[j].date.t < WindowStart]

\* C4 as claimed: the returned set has no two records of equal text, and of
\* the documents sharing a text the one kept is the first in concatenation
\* order.
C4_KeepsFirstFetched ==
    run.status = "returned" =>
        /\ NoEqualTexts(run.result)
        /\ \A r \in Range(run.result) : r = FirstWithText(r.text)

\* C4 amended: the returned set has no two records of equal text, and of the
\* documents sharing a text the one kept is the first in concatenation order
\* among those that are not older than the cutoff.
C4_KeepsFirstInWindow ==
    run.status = "returned" =>
        /\ NoEqualTexts(run.result)
        /\ \A r \in Range(run.result) : r = FirstInWindowWithText(r.text)

\* C4 witness: two documents of one text and different dates, both inside the
\* window, were fetched and one record was returned for them.
C4_Witness ==
    /\ run.status = "returned"
    /\ \E j, k \in 1 .. Len(Fetched) :
          /\ j < k
          /\ Fetched[j].text = Fetched[k].text
          /\ Fetched[j].date # Fetched[k].date
          /\ Fetched[j].date.t >= WindowStart
          /\ Fetched[k].date.t >= WindowStart
          /\ Fetched[j] \in Range(run.result)
          /\ Fetched[k] \notin Range(run.result)

\* C5: every record returned carries a UTC date at or after
\* now - days_back days, and the text of every fetched document dated inside
\* the window is among the returned records.
C5_LookbackWindow ==
    run.status = "returned" =>
        /\ \A r \in Range(run.result) : r.date.aware /\ r.date.t >= WindowStart
        /\ \A k \in 1 .. Len(Fetched) :
              Fetched[k].date.t >= WindowStart
                 => \E r \in Range(run.result) : r.text = Fetched[k].text

\* C5 witness: a document dated exactly at the cutoff was returned and an
\* older one was not.
C5_Witness ==
    /\ run.status = "returned"
    /\ \E r \in Range(run.result) : r.date.t = WindowStart
    /\ \E k \in 1 .. Len(Fetched) :
          Fetched[k].date.t < WindowStart /\ Fetched[k] \notin Range(run.result)

\* C6: between every two successive fetch calls of a run at least the fixed
\* delay of 5 seconds passes, whatever the earlier fetch got.
C6_PolitenessDelay ==
    /\ \A k \in 1 .. Len(run.issued) - 1 :
          run.issued[k + 1].at - run.issued[k].at >= PolitenessDelay
    /\ pc = "fetch" /\ run.issued # << >> =>
          now - run.issued[Len(run.issued)].at >= PolitenessDelay

\* C6 witness: a fetch followed, 5 seconds later, the fetch that got the 429,
\* and another the fetch that raised.
C6_Witness ==
    /\ Len(run.issued) = 3
    /\ run.issued[1].status = 429
    /\ run.issued[2].kind = "ConnectionError"
    /\ run.issued[2].at - run.issued[1].at = PolitenessDelay
    /\ run.issued[3].at - run.issued[2].at = PolitenessDelay

\* the adapters whose credential or configuration is present
EnabledSources(s) ==
    {"Reddit"} \cup (IF youtube_api_key THEN {"YouTube"} ELSE {})
               \cup (IF twitter_api[s] # "None" THEN {"Twitter"} ELSE {})

\* C7 as claimed: the run issues the topic's configured queries in their
\* order, or the lowercased topic name alone for an unconfigured topic, and
\* calls each enabled source adapter once for each query.
C7_QueriesToEveryEnabledSource ==
    run.status = "returned" =>
        /\ run.queries = QueriesFor(run.policy_name)
        /\ \A src \in EnabledSources(run.scraper) :
              \A k \in 1 .. Len(run.queries) :
                 Cardinality({j \in 1 .. Len(run.issued) :
                                 /\ run.issued[j].source = src
                                 /\ run.issued[j].query = run.queries[k]}) = 1

-----------------------------------------------------------------------------
(* Properties of the dashboard script (SpecApp) *)

\* main() has labeled its record set
Labeled == app.pc \in {"labeled", "filtered", "dashboard"}
             \/ (app.pc = "returned" /\ app.message = NoDataMessage)

\* C8 as claimed: every record the ingestion step produced is in the labeled
\* record set that the filters and the aggregates work on.
C8_IngestedRecordsAreLabeled ==
    Labeled =>
        \A r \in Range(app.data) :
           \E l \in Range(app.df) :
              /\ l.text = r.text
              /\ l.platform = r.platform
              /\ l.cleaned_text = clean_text(r.text)

\* C9: a selection that leaves no record makes the dashboard show the
\* no-data message and compute no aggregate, and the filters themselves
\* compute none.
C9_EmptySelectionNotSummarized ==
    /\ app.pc = "filtered" => ~app.metrics.computed
    /\ app.pc \in {"dashboard", "returned"} /\ app.df # << >> /\ app.filtered_df = << >> =>
          /\ app.pc = "returned"
          /\ app.message = NoDataMessage
          /\ ~app.metrics.computed
    /\ app.metrics.computed =>
          /\ app.pc = "dashboard"
          /\ app.metrics.total > 0
          /\ app.metrics.positive_pct.den > 0
          /\ app.metrics.avg_sentiment.den > 0

\* C9 witness: the filters left no record of a non-empty record set and the
\* script stopped at the no-data message.
C9_Witness ==
    /\ app.pc = "returned"
    /\ app.df # << >>
    /\ app.filtered_df = << >>
    /\ app.message = NoDataMessage
    /\ ~app.metrics.computed

\* the record passes the selection: its day is in the range, both ends
\* included, and it equals every selector that is not 'All'
Selected(r, date_range, selected_policy, selected_region, selected_platform) ==
    /\ Len(date_range) = 2 =>
          date_range[1] <= DateOf(r.date) /\ DateOf(r.date) <= date_range[2]
    /\ selected_policy = All \/ r.policy = selected_policy
    /\ selected_region = All \/ r.region = selected_region
    /\ selected_platform = "All" \/ r.platform = selected_platform

\* the positions of df whose records pass the selection of app
SelectedPositions ==
    {k \in 1 .. Len(app.df) :
        Selected(app.df[k], app.date_range, app.selected_policy,
                 app.selected_region, app.selected_platform)}

\* f picks the selected positions of df, in their order, to make filtered_df
PicksSelected(f) ==
    /\ \A k \in 1 .. Len(app.filtered_df) : app.filtered_df[k] = app.df[f[k]]
    /\ \A j, k \in 1 .. Len(app.filtered_df) : j < k => f[j] < f[k]
    /\ {f[k] : k \in 1 .. Len(app.filtered_df)} = SelectedPositions

\* C10: the filtered subset is exactly the records of the record set whose
\* day lies in the selected range, both ends included, and that equal each
\* selector that is not 'All'; the record set itself is not changed.
C10_FilterIsConjunction ==
    [][app.pc = "labeled" /\ app'.pc = "filtered" =>
          /\ app'.df = app.df
          /\ Len(app'.filtered_df) = Cardinality(SelectedPositions')
          /\ \E f \in [1 .. Len(app'.filtered_df) -> 1 .. Len(app'.df)] :
                PicksSelected(f)']_vars

\* C10 witness: a range of one day kept a record dated on that day and
\* dropped another, with a policy selected and the other selectors 'All'.
C10_Witness ==
    /\ app.pc = "filtered"
    /\ Len(app.date_range) = 2
    /\ app.date_range[1] = app.date_range[2]
    /\ app.selected_policy # All
    /\ app.selected_region = All
    /\ app.selected_platform = "All"
    /\ app.filtered_df # << >>
    /\ Len(app.filtered_df) < Len(app.df)
    /\ \E k \in 1 .. Len(app.filtered_df) :
          DateOf(app.filtered_df[k].date) = app.date_range[2]

-----------------------------------------------------------------------------
(* Properties of the SentimentAnalyzer (SpecAnalyzer) *)

Labels == {"positive", "negative", "neutral"}

\* C11: get_sentiment returns exactly one of the three labels; for a text
\* that is not empty the score is the polarity p, and the label is positive
\* exactly when p > 0.1, negative exactly when p < -0.1 and neutral otherwise,
\* p = 0.1 and p = -0.1 included; the empty text gets score 0 and neutral.
C11_SentimentThresholds ==
    analyzer.pc = "scored" =>
        /\ analyzer.sentiment.label \in Labels
        /\ analyzer.text = << >> =>
              analyzer.sentiment = [score |-> 0, label |-> "neutral"]
        /\ analyzer.text # << >> =>
              /\ analyzer.sentiment.score = analyzer.polarity
              /\ analyzer.sentiment.label = "positive" <=> analyzer.polarity > 10
              /\ analyzer.sentiment.label = "negative" <=> analyzer.polarity < -10
              /\ analyzer.sentiment.label = "neutral" <=>
                    (-10 <= analyzer.polarity /\ analyzer.polarity <= 10)

\* C11 witness: a text with polarity exactly 0.1 was labeled neutral.
C11_Witness ==
    /\ analyzer.pc = "scored"
    /\ analyzer.text # << >>
    /\ analyzer.polarity = 10
    /\ analyzer.sentiment = [score |-> 10, label |-> "neutral"]

\* k is in s when the case of the letters of both is ignored
InIgnoringCase(k, s) ==
    \E i \in 1 .. Len(s) - Len(k) + 1 :
       \A j \in 1 .. Len(k) : LowerChar(s[i + j - 1]) = LowerChar(k[j])

\* the five categories in the order the claim gives
CategoryOrder == <<
    <<"D","i","g","i","t","a","l"," ","I","n","d","i","a">>,
    <<"S","w","a","c","h","h"," ","B","h","a","r","a","t">>,
    <<"M","a","k","e"," ","i","n"," ","I","n","d","i","a">>,
    <<"J","a","n"," ","D","h","a","n"," ","Y","o","j","a","n","a">>,
    <<"A","y","u","s","h","m","a","n"," ","B","h","a","r","a","t">> >>

\* the categories, by position, that have a keyword in the text
MatchingCategories(text) ==
    {k \in 1 .. Len(policy_keywords) :
        \E n \in 1 .. Len(policy_keywords[k][2]) :
           InIgnoringCase(policy_keywords[k][2][n], text)}

\* classify_policy has just returned
Classified == analyzer.pc = "classified"

\* C12: classify_policy returns one value for every text: the first category,
\* in the order Digital India, Swachh Bharat, Make in India, Jan Dhan Yojana,
\* Ayushman Bharat, that has a keyword in the text whatever the case of the
\* letters, and 'General' when no category has one.
C12_ClassifyFirstMatch ==
    /\ [k \in 1 .. Len(policy_keywords) |-> policy_keywords[k][1]] = CategoryOrder
    /\ Classified =>
          IF MatchingCategories(analyzer.text) = {}
          THEN analyzer.policy = General
          ELSE \E k \in MatchingCategories(analyzer.text) :
                  /\ \A j \in MatchingCategories(analyzer.text) : k <= j
                  /\ analyzer.policy = CategoryOrder[k]

\* C12 witness: a text that names a Swachh Bharat keyword before a Digital
\* India keyword, both in other cases than the lexicon's, is Digital India.
C12_Witness ==
    /\ Classified
    /\ analyzer.text = <<"C","l","e","a","n"," ","I","n","d","i","a"," ",
                         "D","I","G","I","T","A","L"," ","p","a","y","m","e","n","t">>
    /\ MatchingCategories(analyzer.text) = {1, 2}
    /\ analyzer.policy = CategoryOrder[1]

\* the twelve region names in the gazetteer's order, as displayed
RegionNames == <<
    <<"M","u","m","b","a","i">>,
    <<"D","e","l","h","i">>,
    <<"B","a","n","g","a","l","o","r","e">>,
    <<"C","h","e","n","n","a","i">>,
    <<"K","o","l","k","a","t","a">>,
    <<"H","y","d","e","r","a","b","a","d">>,
    <<"P","u","n","e">>,
    <<"A","h","m","e","d","a","b","a","d">>,
    <<"J","a","i","p","u","r">>,
    <<"L","u","c","k","n","o","w">>,
    <<"K","a","n","p","u","r">>,
    <<"N","a","g","p","u","r">> >>

\* the names, by position, that are in the text whatever the case
MatchingRegions(text) ==
    {k \in 1 .. Len(RegionNames) : InIgnoringCase(RegionNames[k], text)}

\* extract_region has just returned
Located == analyzer.pc = "located"

\* C13: extract_region returns for every text the title-cased form of the
\* first name of the gazetteer's order that is in the text whatever the case
\* of the letters, and 'Unknown' when none is; the result is one of the
\* twelve title-cased names or 'Unknown'.
C13_RegionFirstMatch ==
    /\ Len(regions) = Len(RegionNames)
    /\ Located =>
          /\ analyzer.region \in {RegionNames[k] : k \in 1 .. Len(RegionNames)}
                                    \cup {Unknown}
          /\ IF MatchingRegions(analyzer.text) = {}
             THEN analyzer.region = Unknown
             ELSE \E k \in MatchingRegions(analyzer.text) :
                     /\ \A j \in MatchingRegions(analyzer.text) : k <= j
                     /\ analyzer.region = RegionNames[k]

\* C13 witness: a text that names Delhi before MUMBAI is located in Mumbai.
C13_Witness ==
    /\ Located
    /\ analyzer.text = <<"p","m","j","a","y"," ","i","n"," ","D","e","l","h","i",
                         "M","U","M","B","A","I">>
    /\ MatchingRegions(analyzer.text) = {1, 2}
    /\ analyzer.region = <<"M","u","m","b","a","i">>

\* C14 as claimed: clean_text is idempotent, cleaning a cleaned text gives
\* the cleaned text again.
C14_CleanTextIdempotent ==
    analyzer.pc = "cleaned again" => analyzer.cleaned_again = analyzer.cleaned_text

-----------------------------------------------------------------------------
(* Properties of the key insights (SpecApp) *)

\* the keys of the groups of the filtered records on a column
GroupKeys(column) ==
    {key_of(app.filtered_df[k], column) : k \in 1 .. Len(app.filtered_df)}

MeanOf(column, key) == group_mean(app.filtered_df, column, key)

\* no group has a greater mean, no group has a smaller mean
HasMaxMean(column, key) ==
    \A other \in GroupKeys(column) : ~MeanLess(MeanOf(column, key), MeanOf(column, other))
HasMinMean(column, key) ==
    \A other \in GroupKeys(column) : ~MeanLess(MeanOf(column, other), MeanOf(column, key))

\* groupby iterates the groups in ascending order of their keys: the key
\* comes before every other key of the set
FirstIterated(key, keys) == \A other \in keys \ {key} : TextLess(key, other)

\* the key is the first iterated of the groups with the greatest mean
ArgMax(column, key) ==
    /\ key \in GroupKeys(column)
    /\ HasMaxMean(column, key)
    /\ FirstIterated(key, {k \in GroupKeys(column) : HasMaxMean(column, k)})

\* the key is the first iterated of the groups with the smallest mean
ArgMin(column, key) ==
    /\ key \in GroupKeys(column)
    /\ HasMinMean(column, key)
    /\ FirstIterated(key, {k \in GroupKeys(column) : HasMinMean(column, k)})

\* C15: on a filtered set that is not empty, the most positive policy, region
\* and platform are groups of maximal mean sentiment score and the most
\* criticized policy is a group of minimal mean; of several groups with the
\* extreme mean, the first in the iteration order of the groups is selected.
C15_InsightsAreExtremes ==
    app.pc = "dashboard" =>
        /\ app.filtered_df # << >>
        /\ app.insights.derived
        /\ ArgMax("policy", app.insights.most_positive_policy)
        /\ ArgMin("policy", app.insights.most_negative_policy)
        /\ ArgMax("region", app.insights.best_region)
        /\ ArgMax("platform", app.insights.best_platform)

\* C15 witness: two records of equal score, of different policy and platform;
\* the platform selected is the second record's and the policy the first's.
C15_Witness ==
    /\ app.pc = "dashboard"
    /\ Len(app.filtered_df) = 2
    /\ app.filtered_df[1].sentiment_score = app.filtered_df[2].sentiment_score
    /\ app.filtered_df[1].policy # app.filtered_df[2].policy
    /\ app.filtered_df[1].platform = "Twitter"
    /\ app.filtered_df[2].platform = "Reddit"
    /\ app.insights.best_platform = PlatformText["Reddit"]
    /\ app.insights.most_positive_policy = app.filtered_df[1].policy
    /\ app.insights.most_negative_policy = app.filtered_df[1].policy

-----------------------------------------------------------------------------
(* Order of the steps after the fetches (SpecPolicy) *)

\* document j is the first of the run with its text and is older than the
\* cutoff; document k is a later one of the same text inside the window
OldFirstThenInWindow(j, k) ==
    /\ j < k
    /\ Fetched[j].text = Fetched[k].text
    /\ \A i \in 1 .. j - 1 : Fetched[i].text # Fetched[j].text
    /\ Fetched[j].date.t < WindowStart
    /\ Fetched[k].date.t >= WindowStart

\* C16: the cutoff is applied before the duplicates are dropped: when the
\* first document of a text is older than the cutoff and a later document of
\* the same text is inside the window, the returned set holds a later
\* document of that text, dated inside the window.
C16_CutoffBeforeDedup ==
    run.status = "returned" =>
        \A j, k \in 1 .. Len(Fetched) :
           OldFirstThenInWindow(j, k) =>
              \E n \in j + 1 .. Len(Fetched) :
                 /\ Fetched[n].text = Fetched[j].text
                 /\ Fetched[n].date.t >= WindowStart
                 /\ Fetched[n] \in Range(run.result)

\* C16 witness: the first query brought a document older than the cutoff,
\* a later query the same text dated inside the window, and the later
\* document was returned.
C16_Witness ==
    /\ run.status = "returned"
    /\ \E j, k \in 1 .. Len(Fetched) :
          /\ OldFirstThenInWindow(j, k)
          /\ Fetched[k] \in Range(run.result)
          /\ Fetched[j] \notin Range(run.result)

-----------------------------------------------------------------------------
(* The writes of the Twitter timestamp (Spec) *)

=============================================================================
